---- MODULE Spec2Model ----
(***************************************************************************)
(* A model of objld: the line grammar of src/lib.rs (parse_line and the   *)
(* nom combinators it is built from), the parallel line dispatcher         *)
(* parse_file, and the aggregation / index resolution / vertex             *)
(* deduplication of examples/opengl.rs.                                    *)
(*                                                                         *)
(* Text is a sequence of one-character strings.  An f32 is represented by  *)
(* the integer trunc(x * 10^8) (its value cut after 8 fractional decimal   *)
(* digits): F32Wrapper::key reads only the first 7 fractional digits of a  *)
(* float, so this keeps one digit more than the key can see.               *)
(***************************************************************************)
EXTENDS Integers, Sequences, FiniteSets, TLC

VARIABLES
  line,        \* SpecLine: the text handed to parse_line
  lineFields,  \* SpecLine (history): the corner fields the text was written from
  lineResult,  \* SpecLine: what parse_line returned for it (or "pending")
  input,       \* SpecFile: the text handed to parse_file
  jobs,        \* SpecFile: the pieces par_split has cut the text into, in text order
  collected,   \* SpecFile: the Vec that collect() built (or "pending")
  r,           \* Spec: the RawData3D that to_raw_data3d is building
  printed,     \* Spec: Error records printed by to_raw_data3d
  faces,       \* Spec (history): face lines consumed so far
  expected,    \* Spec (history): the corner list the records consumed so far expand to
  pc,          \* Spec: "aggregate" | "dedup" | "simple"
  o            \* Spec: the outcome of the resolution pass that ran

vars == <<line, lineFields, lineResult, input, jobs, collected, r, printed, faces, expected, pc, o>>

lineVars == <<line, lineFields, lineResult>>
fileVars == <<input, jobs, collected>>
meshVars == <<r, printed, faces, expected, pc, o>>

None == <<>>
Some(x) == <<x>>

(***************************************************************************)
(* Text helpers                                                            *)
(***************************************************************************)
Digits == {"0", "1", "2", "3", "4", "5", "6", "7", "8", "9"}

DigitVal(c) ==
  CASE c = "0" -> 0 [] c = "1" -> 1 [] c = "2" -> 2 [] c = "3" -> 3 [] c = "4" -> 4
    [] c = "5" -> 5 [] c = "6" -> 6 [] c = "7" -> 7 [] c = "8" -> 8 [] c = "9" -> 9

Drop(s, n) == SubSeq(s, n + 1, Len(s))
Take(s, n) == SubSeq(s, 1, n)

\* The length of the longest prefix of s made of characters of set cs.
RECURSIVE PrefixLen(_, _)
PrefixLen(s, cs) ==
  IF s # <<>> /\ Head(s) \in cs THEN 1 + PrefixLen(Tail(s), cs) ELSE 0

RECURSIVE Pow10(_)
Pow10(n) == IF n = 0 THEN 1 ELSE 10 * Pow10(n - 1)

\* The number a string of decimal digits denotes.
RECURSIVE DigitsVal(_)
DigitsVal(ds) ==
  IF ds = <<>> THEN 0 ELSE DigitsVal(Take(ds, Len(ds) - 1)) * 10 + DigitVal(ds[Len(ds)])

(***************************************************************************)
(* nom combinators.  A parse state holds the unconsumed text and the       *)
(* values parsed so far, or nom::Err::Error: the text at the point of      *)
(* failure and the ErrorKind.  A combinator applied to a failed state      *)
(* leaves it alone, which is how tuple((p1, p2, ...)) sequences parsers.   *)
(***************************************************************************)
Start(s) == [ok |-> TRUE, rest |-> s, val |-> <<>>, at |-> <<>>, code |-> ""]
Fail(st, at, kind) == [st EXCEPT !.ok = FALSE, !.at = at, !.code = kind]
Push(st, v, rest) == [st EXCEPT !.val = Append(@, v), !.rest = rest]
Skip(st, rest) == [st EXCEPT !.rest = rest]
Last(vals) == vals[Len(vals)]

SpaceChars == {" ", "\t"}

space0(st) ==
  IF ~st.ok THEN st ELSE Skip(st, Drop(st.rest, PrefixLen(st.rest, SpaceChars)))

space1(st) ==
  IF ~st.ok THEN st
  ELSE IF PrefixLen(st.rest, SpaceChars) = 0 THEN Fail(st, st.rest, "Space")
  ELSE Skip(st, Drop(st.rest, PrefixLen(st.rest, SpaceChars)))

char(c, st) ==
  IF ~st.ok THEN st
  ELSE IF st.rest # <<>> /\ Head(st.rest) = c THEN Skip(st, Tail(st.rest))
  ELSE Fail(st, st.rest, "Char")

tag(t, st) ==
  IF ~st.ok THEN st
  ELSE IF Len(st.rest) >= Len(t) /\ Take(st.rest, Len(t)) = t THEN Skip(st, Drop(st.rest, Len(t)))
  ELSE Fail(st, st.rest, "Tag")

eof(st) ==
  IF ~st.ok THEN st ELSE IF st.rest = <<>> THEN st ELSE Fail(st, st.rest, "Eof")

\* opt(one_of("+-")): the length of the sign at the head of s.
SignLen(s) == IF s # <<>> /\ Head(s) \in {"+", "-"} THEN 1 ELSE 0

\* The text after digit1, opt(char('.')), digit0 have run on s, which starts with a digit.
AfterDigitsPointDigits(s) ==
  LET a == Drop(s, PrefixLen(s, Digits))
      b == IF a # <<>> /\ Head(a) = "." THEN Tail(a) ELSE a
  IN Drop(b, PrefixLen(b, Digits))

\* recognize(tuple((opt(one_of("+-")), digit1, opt(char('.')), digit0))): the length of
\* the token at the head of s, or 0 when digit1 finds no digit.
consume_num(s) ==
  LET body == Drop(s, SignLen(s))
  IN IF PrefixLen(body, Digits) = 0 THEN 0 ELSE Len(s) - Len(AfterDigitsPointDigits(body))

\* i32::from_str: an optional sign and decimal digits, nothing else.
IntFromStr(num) ==
  LET body == Drop(num, SignLen(num))
  IN IF body = <<>> \/ PrefixLen(body, Digits) # Len(body) THEN None
     ELSE Some(IF Head(num) = "-" THEN 0 - DigitsVal(body) ELSE DigitsVal(body))

\* F32Wrapper::key: "let prec: u16 = 7; // digits in b10"
prec == 7

\* The number of fractional decimal digits the representation of an f32 keeps:
\* one more than the key reads.
FloatDigits == prec + 1

\* f32::from_str on a token of consume_num: sign, digits, optionally a point and digits.
FloatFromStr(num) ==
  LET body == Drop(num, SignLen(num))
      w == PrefixLen(body, Digits)
      fracAll == IF w < Len(body) THEN Drop(body, w + 1) ELSE <<>>
      frac == Take(fracAll, IF Len(fracAll) < FloatDigits THEN Len(fracAll) ELSE FloatDigits)
      mag == DigitsVal(Take(body, w)) * Pow10(FloatDigits)
               + DigitsVal(frac) * Pow10(FloatDigits - Len(frac))
  IN Some(IF Head(num) = "-" THEN 0 - mag ELSE mag)

\* The conversion of the token of length n at the head of the text: the value is
\* pushed, or the conversion's failure reported with the token.
Converted(st, n, v, kind) ==
  IF v = None THEN Fail(st, Take(st.rest, n), kind) ELSE Push(st, v[1], Drop(st.rest, n))

NumToken(st, n, asFloat) ==
  IF n = 0 THEN Fail(st, Drop(st.rest, SignLen(st.rest)), "Digit")
  ELSE IF asFloat THEN Converted(st, n, FloatFromStr(Take(st.rest, n)), "Float")
  ELSE Converted(st, n, IntFromStr(Take(st.rest, n)), "Digit")

parse_float(st) == IF ~st.ok THEN st ELSE NumToken(st, consume_num(st.rest), TRUE)

parse_num(st) == IF ~st.ok THEN st ELSE NumToken(st, consume_num(st.rest), FALSE)

\* opt(p) given p's outcome on st: a failure of p becomes None with nothing consumed.
opt(st, sub) ==
  IF ~st.ok THEN st
  ELSE IF sub.ok THEN Push(st, Some(Last(sub.val)), sub.rest)
  ELSE Push(st, None, st.rest)

opt_parse_num(st) == opt(st, parse_num(st))

\* recognize(tuple((space0, opt(consume_comment), eof))), the comment being
\* space0, '#', rest.
AfterComment(s) == IF s # <<>> /\ Head(s) = "#" THEN <<>> ELSE s

end_line(st) ==
  IF ~st.ok THEN st
  ELSE eof(Skip(st, AfterComment(Drop(st.rest, PrefixLen(st.rest, SpaceChars)))))

(***************************************************************************)
(* The line grammar                                                        *)
(***************************************************************************)
\* The value a parser builds from the fields of a finished tuple.
Built(st, v) == IF ~st.ok THEN st ELSE [st EXCEPT !.val = <<v>>]

Coord2(vals) == [tag |-> "Coord2", x |-> vals[1], y |-> vals[2]]
Coord3(vals) == [tag |-> "Coord3", x |-> vals[1], y |-> vals[2], z |-> vals[3]]
Normal(vals) == [tag |-> "Normal", x |-> vals[1], y |-> vals[2], z |-> vals[3]]
TextureCoord1(vals) == [tag |-> "TextureCoord1", u |-> vals[1]]
TextureCoord2(vals) == [tag |-> "TextureCoord2", u |-> vals[1], v |-> vals[2]]
TextureCoord3(vals) == [tag |-> "TextureCoord3", u |-> vals[1], v |-> vals[2], w |-> vals[3]]

Make(st, kind) ==
  IF ~st.ok THEN st
  ELSE Built(st, CASE kind = "Coord2" -> Coord2(st.val)
                   [] kind = "Coord3" -> Coord3(st.val)
                   [] kind = "Normal" -> Normal(st.val)
                   [] kind = "TextureCoord1" -> TextureCoord1(st.val)
                   [] kind = "TextureCoord2" -> TextureCoord2(st.val)
                   [] kind = "TextureCoord3" -> TextureCoord3(st.val))

parse_coord2(st) ==
  Make(parse_float(space1(parse_float(space1(tag(<<"v">>, space0(st)))))), "Coord2")

parse_coord3(st) ==
  Make(parse_float(space1(parse_float(space1(parse_float(space1(
         tag(<<"v">>, space0(st)))))))), "Coord3")

parse_normal(st) ==
  Make(parse_float(space1(parse_float(space1(parse_float(space1(
         tag(<<"v", "n">>, space0(st)))))))), "Normal")

parse_texcoord1(st) ==
  Make(parse_float(space1(tag(<<"v", "t">>, space0(st)))), "TextureCoord1")

parse_texcoord2(st) ==
  Make(parse_float(space1(parse_float(space1(tag(<<"v", "t">>, space0(st)))))),
       "TextureCoord2")

parse_texcoord3(st) ==
  Make(parse_float(space1(parse_float(space1(parse_float(space1(
         tag(<<"v", "t">>, space0(st)))))))), "TextureCoord3")

VertexIndeces(c, t, n) == [coord_rindex |-> c, texcoord_rindex |-> t, normal_rindex |-> n]

\* The corner parsed by sub, a parse started at st's text, pushed on st's values.
Corner(st, sub) ==
  IF ~st.ok THEN st
  ELSE IF ~sub.ok THEN Fail(st, sub.at, sub.code)
  ELSE Push(st, VertexIndeces(sub.val[1], sub.val[2], sub.val[3]), sub.rest)

\* tuple((parse_num, char('/'), opt(parse_num), char('/'), opt(parse_num)))
parse_face_vertex(st) ==
  Corner(st, opt_parse_num(char("/", opt_parse_num(char("/", parse_num(Start(st.rest)))))))

Face3(vals) == [tag |-> "Face3", v1 |-> vals[1], v2 |-> vals[2], v3 |-> vals[3]]
Face4(vals) == [tag |-> "Face4", v1 |-> vals[1], v2 |-> vals[2], v3 |-> vals[3], v4 |-> vals[4]]

MakeFace(st) ==
  IF ~st.ok THEN st ELSE Built(st, IF Len(st.val) = 3 THEN Face3(st.val) ELSE Face4(st.val))

parse_face3(st) ==
  MakeFace(parse_face_vertex(space1(parse_face_vertex(space1(parse_face_vertex(space1(
             tag(<<"f">>, space0(st)))))))))

parse_face4(st) ==
  MakeFace(parse_face_vertex(space1(parse_face_vertex(space1(parse_face_vertex(space1(
             parse_face_vertex(space1(tag(<<"f">>, space0(st)))))))))))

VertDataLine(v) == [tag |-> "VertDataLine", v |-> v]
FaceLine(f) == [tag |-> "FaceLine", f |-> f]
NoData == [tag |-> "NoData"]
Pending == [tag |-> "Pending"]
Error(e) == [tag |-> "Error", at |-> e.at, code |-> e.code]

\* map(p, wrap): the line record a successful alternative yields.
Mapped(st, kind) ==
  IF ~st.ok THEN st
  ELSE Built(st, CASE kind = "NoData" -> NoData
                   [] kind = "VertDataLine" -> VertDataLine(st.val[1])
                   [] kind = "FaceLine" -> FaceLine(st.val[1]))

\* The alternatives of parse_line's alt((...)), in the order it tries them.
Alternatives(s) ==
  << Mapped(end_line(Start(s)), "NoData"),
     Mapped(end_line(parse_texcoord1(Start(s))), "VertDataLine"),
     Mapped(end_line(parse_coord2(Start(s))), "VertDataLine"),
     Mapped(end_line(parse_texcoord2(Start(s))), "VertDataLine"),
     Mapped(end_line(parse_coord3(Start(s))), "VertDataLine"),
     Mapped(end_line(parse_normal(Start(s))), "VertDataLine"),
     Mapped(end_line(parse_texcoord3(Start(s))), "VertDataLine"),
     Mapped(end_line(parse_face3(Start(s))), "FaceLine"),
     Mapped(end_line(parse_face4(Start(s))), "FaceLine") >>

\* alt: the first alternative that succeeds; when none does, the last one's error.
FirstOk(alts) ==
  IF \A i \in 1..Len(alts) : ~alts[i].ok THEN alts[Len(alts)]
  ELSE alts[CHOOSE i \in 1..Len(alts) : alts[i].ok /\ \A j \in 1..(i - 1) : ~alts[j].ok]

parse_line(s) == FirstOk(Alternatives(s))

\* parse_file's closure: the parsed record, or the error as a record.
Outcome(p) == IF p.ok THEN p.val[1] ELSE Error(p)

ParseOutcome(s) == Outcome(parse_line(s))

(***************************************************************************)
(* SpecLine: parse_line applied to one line of text.                       *)
(***************************************************************************)
\* How many corner fields beyond four a face line of the inputs may carry.
MaxExtraCorners == 2

\* The forms of a face corner field, each with the corner it denotes.
FieldForms ==
  { [text |-> <<"1">>, corner |-> VertexIndeces(1, None, None)],
    [text |-> <<"1", "/", "2">>, corner |-> VertexIndeces(1, Some(2), None)],
    [text |-> <<"1", "/", "/", "3">>, corner |-> VertexIndeces(1, None, Some(3))],
    [text |-> <<"1", "/", "2", "/", "3">>, corner |-> VertexIndeces(1, Some(2), Some(3))],
    [text |-> <<"2", "/", "1", "/">>, corner |-> VertexIndeces(2, Some(1), None)],
    [text |-> <<"-", "1", "/", "-", "2", "/", "-", "3">>,
     corner |-> VertexIndeces(0 - 1, Some(0 - 2), Some(0 - 3))] }

\* A corner field in full form, used for the fields after the third.
FullField == [text |-> <<"7", "/", "7", "/", "7">>, corner |-> VertexIndeces(7, Some(7), Some(7))]

Trailers == { <<>>, <<" ">>, <<" ", "#", " ", "c">> }

RECURSIVE JoinFields(_)
JoinFields(fs) ==
  IF fs = <<>> THEN <<>> ELSE <<" ">> \o Head(fs).text \o JoinFields(Tail(fs))

FaceText(fs, trailer) == <<"f">> \o JoinFields(fs) \o trailer

FaceFieldLists ==
  { <<a, b, c>> \o [i \in 1..n |-> FullField] :
      a \in FieldForms, b \in FieldForms, c \in FieldForms, n \in 0..(MaxExtraCorners + 1) }

\* Lines that are not faces: blank, comment, vertex data, and malformed ones.
OtherLines ==
  { <<>>,
    <<" ", "\t">>,
    <<"#", " ", "c">>,
    <<" ", "v", " ", "1", ".", "0", " ", "-", "2", ".", "0", " ", "#", " ", "h", "i", "!">>,
    <<"v", " ", "-", "5", ".", "0", "0", " ", "5", ".", " ", "0">>,
    <<"v", "n", " ", "1", ".", "0", " ", "-", "2", ".", "0", " ", "#", " ", "h", "i", "!">>,
    <<"v", "n", " ", "0", " ", "0", " ", "1">>,
    <<"v", "t", " ", "0", ".", "5">>,
    <<"v", "t", " ", "1", ".", "0", " ", "+", "2", ".", "0">>,
    <<"v", "t", " ", "1", ".", "0", " ", "+", "2", ".", "0", " ", "3", ".", "0">>,
    <<"v", " ", "1", " ", "2", " ", "3", " ", "4">>,
    <<"v", " ", "x">>,
    <<"f", " ", "1", ".", "/", "/", " ", "2", "/", "/", " ", "3", "/", "/">>,
    <<"f", " ", "1", "/", "/", " ", "2", "/", "/">>,
    <<"o", " ", "c", "u", "b", "e">> }

InitLine ==
  /\ \/ \E fs \in FaceFieldLists, t \in Trailers :
          line = FaceText(fs, t) /\ lineFields = fs
     \/ \E l \in OtherLines : line = l /\ lineFields = <<>>
  /\ lineResult = Pending
  /\ input = <<>> /\ jobs = <<>> /\ collected = None
  /\ r = <<>> /\ printed = 0 /\ faces = 0 /\ expected = <<>>
  /\ pc = "idle" /\ o = <<>>

\* A call of parse_line.
ParseLine ==
  /\ lineResult = Pending
  /\ lineResult' = ParseOutcome(line)
  /\ UNCHANGED <<line, lineFields, fileVars, meshVars>>

NextLine == ParseLine

SpecLine == InitLine /\ [][NextLine]_vars

\* The face the corner fields fs denote when read as a triangle or a quad.
FaceOf(fs) ==
  IF Len(fs) = 3
  THEN [tag |-> "Face3", v1 |-> fs[1].corner, v2 |-> fs[2].corner, v3 |-> fs[3].corner]
  ELSE [tag |-> "Face4", v1 |-> fs[1].corner, v2 |-> fs[2].corner, v3 |-> fs[3].corner,
        v4 |-> fs[4].corner]

\* A corner field written with both slashes, the only shape parse_face_vertex reads.
TwoSlashes(f) == Len(SelectSeq(f.text, LAMBDA c : c = "/")) = 2

(* C4: a face line of three or four corner fields, each in any of the forms
   i, i/j, i//k, i/j/k, i/j/, parses to the face whose corners are
   (i, Some(j) or None, Some(k) or None); it is never an Error. *)
C4_FaceCornerForms ==
  (lineResult # Pending /\ Len(lineFields) \in {3, 4})
    => lineResult = FaceLine(FaceOf(lineFields))

(* C9: a face line with five or more well-formed corner fields parses to a
   face built from its leading corners, the extra corners dropped; it is not
   an Error.  Stated for fields parse_face_vertex reads (both slashes). *)
C9_ExtraCornersDropped ==
  (/\ lineResult # Pending
   /\ Len(lineFields) >= 5
   /\ \A i \in 1..Len(lineFields) : TwoSlashes(lineFields[i]))
    => \/ lineResult = FaceLine(FaceOf(SubSeq(lineFields, 1, 3)))
       \/ lineResult = FaceLine(FaceOf(SubSeq(lineFields, 1, 4)))

(***************************************************************************)
(* SpecFile: parse_file.  par_split cuts the text at separators into       *)
(* pieces that workers fold independently; collect() joins the pieces'     *)
(* outputs in text order.                                                  *)
(***************************************************************************)
MaxFileLines == 3
MaxWorkers == 2

NL == "\n"

FileLines ==
  { <<>>,
    <<"v", " ", "1", " ", "2", " ", "3">>,
    <<"f", " ", "1", " ", "2", " ", "3">> }

RECURSIVE JoinLines(_)
JoinLines(ls) ==
  IF Len(ls) = 1 THEN ls[1] ELSE ls[1] \o <<NL>> \o JoinLines(Tail(ls))

\* The positions of the separator in a text.
Separators(text) == {k \in 1..Len(text) : text[k] = NL}

\* str::split(sep): the pieces between separators, in order; n separators give n + 1 pieces.
RECURSIVE SplitLines(_)
SplitLines(text) ==
  IF Separators(text) = {} THEN <<text>>
  ELSE LET k == CHOOSE i \in Separators(text) : \A j \in Separators(text) : i <= j
       IN <<Take(text, k - 1)>> \o SplitLines(Drop(text, k))

\* A piece of the text: what is left of it to fold, the records folded so far,
\* and the worker folding it (0: none yet).
Job(text) == [rest |-> Some(text), out |-> <<>>, worker |-> 0]

\* The producer's split at separator k: the text before it and the text after it.
SplitAt(text, k) == <<Take(text, k - 1), Drop(text, k)>>

\* The mutant of CollectInOrder: the pieces' outputs joined last piece first.
RECURSIVE CollectReversed(_)
CollectReversed(js) ==
  IF js = <<>> THEN <<>> ELSE CollectReversed(Tail(js)) \o Head(js).out

\* collect(): the pieces' outputs joined in text order.
RECURSIVE CollectInOrder(_)
CollectInOrder(js) ==
  IF js = <<>> THEN <<>> ELSE Head(js).out \o CollectInOrder(Tail(js))

InitFile ==
  /\ \E n \in 1..MaxFileLines : \E ls \in [1..n -> FileLines] : input = JoinLines(ls)
  /\ jobs = <<Job(input)>>
  /\ collected = None
  /\ line = <<>> /\ lineFields = <<>> /\ lineResult = Pending
  /\ r = <<>> /\ printed = 0 /\ faces = 0 /\ expected = <<>>
  /\ pc = "idle" /\ o = <<>>

\* A piece nobody folds yet is split in two at one of its separators.
Split(i) ==
  /\ collected = None
  /\ jobs[i].worker = 0
  /\ \E k \in Separators(jobs[i].rest[1]) :
       LET halves == SplitAt(jobs[i].rest[1], k)
       IN jobs' = Take(jobs, i - 1) \o <<Job(halves[1]), Job(halves[2])>> \o Drop(jobs, i)
  /\ UNCHANGED <<input, collected, lineVars, meshVars>>

\* An idle worker takes a piece nobody folds yet.
Claim(w, i) ==
  /\ collected = None
  /\ jobs[i].worker = 0
  /\ \A j \in 1..Len(jobs) : jobs[j].worker = w => jobs[j].rest = None
  /\ jobs' = [jobs EXCEPT ![i].worker = w]
  /\ UNCHANGED <<input, collected, lineVars, meshVars>>

\* The worker folding piece i maps its next line through parse_line.
Fold(i) ==
  /\ collected = None
  /\ jobs[i].worker # 0
  /\ jobs[i].rest # None
  /\ LET text == jobs[i].rest[1]
         seps == Separators(text)
         k == IF seps = {} THEN Len(text) + 1
              ELSE CHOOSE a \in seps : \A b \in seps : a <= b
     IN jobs' = [jobs EXCEPT ![i].out = @ \o <<ParseOutcome(Take(text, k - 1))>>,
                             ![i].rest = IF seps = {} THEN None ELSE Some(Drop(text, k))]
  /\ UNCHANGED <<input, collected, lineVars, meshVars>>

\* Every piece is folded: collect() builds the Vec.
Collect ==
  /\ collected = None
  /\ \A i \in 1..Len(jobs) : jobs[i].rest = None
  /\ collected' = Some(CollectInOrder(jobs))
  /\ UNCHANGED <<input, jobs, lineVars, meshVars>>

NextFile ==
  \/ \E i \in 1..Len(jobs) : Split(i)
  \/ \E w \in 1..MaxWorkers, i \in 1..Len(jobs) : Claim(w, i)
  \/ \E i \in 1..Len(jobs) : Fold(i)
  \/ Collect

SpecFile == InitFile /\ [][NextFile]_vars

\* A sequential pass over the text: parse_line on each line in turn.
SequentialPass(text) ==
  LET ls == SplitLines(text) IN [i \in 1..Len(ls) |-> ParseOutcome(ls[i])]

(* C3: parse_file yields exactly one result per newline-delimited line, and
   whatever the workers' interleaving the collected sequence is that of a
   sequential pass: entry i is parse_line's outcome on line i, a failing line
   an Error entry at its own position. *)
C3_OrderPreserved ==
  collected # None =>
    LET ls == SplitLines(input)
        got == collected[1]
    IN /\ Len(got) = Cardinality(Separators(input)) + 1
       /\ got = SequentialPass(input)
       /\ \A i \in 1..Len(got) : (got[i].tag = "Error") <=> ~parse_line(ls[i]).ok

\* Two workers folded pieces of a three-line text with a failing line in the
\* middle and an empty last line, and the Vec was collected.
C3_Witness ==
  /\ collected # None
  /\ Len(jobs) >= 2
  /\ \E i, j \in 1..Len(jobs) : jobs[i].worker = 1 /\ jobs[j].worker = 2
  /\ Len(collected[1]) = 3
  /\ collected[1][2].tag = "Error"
  /\ collected[1][1].tag = "VertDataLine"
  /\ collected[1][3].tag = "NoData"

(***************************************************************************)
(* Spec: examples/opengl.rs.  to_raw_data3d consumes line records one by   *)
(* one; then a resolution pass (to_opengl_data3d_dedup or                  *)
(* to_opengl_data3d_simple) runs on the RawData3D it built.                *)
(***************************************************************************)
MaxPos == 3
MaxTex == 2
MaxNorm == 1
MaxFaces == 1
MaxErrors == 1

\* The vertex lines of the inputs, floats in units of 10^-8.  The n-th v line:
\* x = 0.00000015, 0.00000019, 0.00000021, then on by 2 * 10^-8.
PosLine(n) == <<(CASE n = 1 -> 15 [] n = 2 -> 19 [] OTHER -> 15 + 2 * n), 0, 0>>

\* The n-th two-float vt line: u = -0.00000019, -0.00000021, then on by 2 * 10^-8.
TexLine(n) == <<(IF n = 1 THEN 0 - 19 ELSE 0 - (17 + 2 * n)), 0>>

\* The n-th vn line: (0, 0.99999994, 1.0), then (0, 1.0, 0.99999994).
NormLine(n) == IF n = 1 THEN <<0, 99999994, 100000000>> ELSE <<0, 100000000, 99999994>>

V(p, t, n) == VertexIndeces(p, Some(t), Some(n))
P(p) == VertexIndeces(p, None, None)
Last1 == V(0 - 1, 0 - 1, 0 - 1)

\* The face lines of the inputs: corners with negative and positive indices, in and
\* out of range of arrays of MaxPos, MaxTex and MaxNorm elements, and corners
\* without a texcoord or a normal index.
Triangles ==
  { <<V(0 - 3, 0 - 2, 0 - 1), V(0 - 2, 0 - 2, 0 - 1), Last1>>,
    <<Last1, Last1, Last1>>,
    <<V(0 - 2, 0 - 2, 0 - 1), V(0 - 1, 0 - 2, 0 - 1), V(0 - 2, 0 - 1, 0 - 1)>>,
    <<V(1, 1, 0 - 1), V(2, 1, 0 - 1), Last1>>,
    <<V(3, 2, 1), V(1, 1, 1), V(2, 2, 1)>>,
    <<Last1, V(5, 0 - 1, 0 - 1), Last1>>,
    <<Last1, Last1, V(0 - 5, 0 - 1, 0 - 1)>>,
    <<V(0 - 1, 5, 0 - 1), Last1, Last1>>,
    <<Last1, V(0 - 1, 0 - 1, 0 - 5), Last1>>,
    <<VertexIndeces(0 - 1, None, Some(0 - 1)), Last1, Last1>>,
    <<Last1, Last1, VertexIndeces(0 - 2, Some(0 - 1), None)>>,
    <<VertexIndeces(5, None, Some(0 - 1)), Last1, Last1>>,
    <<P(0 - 1), P(0 - 2), P(0 - 3)>> }

Quads ==
  { <<V(0 - 3, 0 - 2, 0 - 1), V(0 - 1, 0 - 2, 0 - 1), Last1, V(0 - 3, 0 - 1, 0 - 1)>>,
    <<V(0 - 3, 0 - 2, 0 - 1), V(0 - 2, 0 - 2, 0 - 1), Last1, Last1>>,
    <<Last1, V(0 - 2, 0 - 1, 0 - 1), V(0 - 1, 0 - 2, 0 - 1), V(5, 0 - 1, 0 - 1)>>,
    <<P(0 - 1), P(0 - 2), P(0 - 3), P(0 - 1)>> }

\* The line records the aggregator can be handed next, given what it holds.
LineRecords(raw) ==
  { VertDataLine(Coord3(PosLine(Len(raw.vertex_pos) + 1))),
    VertDataLine(TextureCoord2(TexLine(Len(raw.vertex_tex) + 1))),
    VertDataLine(Normal(NormLine(Len(raw.vertex_norm) + 1))),
    VertDataLine(Coord2(<<15, 0>>)),
    VertDataLine(TextureCoord1(<<15>>)),
    VertDataLine(TextureCoord3(<<15, 0, 0>>)),
    NoData,
    Error([at |-> <<"o">>, code |-> "Tag"]) }
    \cup {FaceLine(Face3(t)) : t \in Triangles}
    \cup {FaceLine(Face4(q)) : q \in Quads}

RawData3D == [vertex_pos |-> <<>>, vertex_tex |-> <<>>, vertex_norm |-> <<>>, vert_ind |-> <<>>]

\* The mutant of Pushed: a quad split along the same diagonal, the second triangle
\* listed from v1.
PushedFromV1(f) ==
  IF f.tag = "Face3" THEN <<f.v1, f.v2, f.v3>>
  ELSE <<f.v1, f.v2, f.v3, f.v1, f.v3, f.v4>>

\* The corners to_raw_data3d pushes for a face, in the order of its r.vert_ind.push calls.
Pushed(f) ==
  IF f.tag = "Face3" THEN <<f.v1>> \o <<f.v2>> \o <<f.v3>>
  ELSE <<f.v1>> \o <<f.v2>> \o <<f.v3>> \o <<f.v3>> \o <<f.v4>> \o <<f.v1>>

\* The vertex data to_raw_data3d keeps; the other variants fall to `_ => {}`.
PushedVertex(raw, v) ==
  CASE v.tag = "Coord3" -> [raw EXCEPT !.vertex_pos = Append(@, <<v.x, v.y, v.z>>)]
    [] v.tag = "Normal" -> [raw EXCEPT !.vertex_norm = Append(@, <<v.x, v.y, v.z>>)]
    [] v.tag = "TextureCoord2" -> [raw EXCEPT !.vertex_tex = Append(@, <<v.u, v.v>>)]
    [] OTHER -> raw

\* One iteration of to_raw_data3d's loop: the match on the line record.
Aggregate(raw, rec) ==
  CASE rec.tag = "VertDataLine" -> PushedVertex(raw, rec.v)
    [] rec.tag = "FaceLine" -> [raw EXCEPT !.vert_ind = @ \o Pushed(rec.f)]
    [] rec.tag = "NoData" -> raw
    [] rec.tag = "Error" -> raw

\* The corner list a record stands for: a triangle's three corners, a quad's two
\* triangles along the v1-v3 diagonal, nothing for any other record.
Expansion(rec) ==
  IF rec.tag # "FaceLine" THEN <<>>
  ELSE IF rec.f.tag = "Face3" THEN <<rec.f.v1, rec.f.v2, rec.f.v3>>
  ELSE <<rec.f.v1, rec.f.v2, rec.f.v3, rec.f.v3, rec.f.v4, rec.f.v1>>

\* The inputs stay within the bounds.
WithinBounds(rec) ==
  /\ (rec.tag = "VertDataLine" /\ rec.v.tag = "Coord3") => Len(r.vertex_pos) < MaxPos
  /\ (rec.tag = "VertDataLine" /\ rec.v.tag = "TextureCoord2") => Len(r.vertex_tex) < MaxTex
  /\ (rec.tag = "VertDataLine" /\ rec.v.tag = "Normal") => Len(r.vertex_norm) < MaxNorm
  /\ rec.tag = "FaceLine" => faces < MaxFaces
  /\ rec.tag = "Error" => printed < MaxErrors

Init ==
  /\ r = RawData3D
  /\ printed = 0
  /\ faces = 0
  /\ expected = <<>>
  /\ pc = "aggregate"
  /\ o = <<>>
  /\ line = <<>> /\ lineFields = <<>> /\ lineResult = Pending
  /\ input = <<>> /\ jobs = <<>> /\ collected = None

\* to_raw_data3d takes the next line record.
Consume(rec) ==
  /\ pc = "aggregate"
  /\ WithinBounds(rec)
  /\ r' = Aggregate(r, rec)
  /\ printed' = IF rec.tag = "Error" THEN printed + 1 ELSE printed
  /\ faces' = IF rec.tag = "FaceLine" THEN faces + 1 ELSE faces
  /\ expected' = expected \o Expansion(rec)
  /\ UNCHANGED <<pc, o, lineVars, fileVars>>

\* `x as i64` and the like: the quotient rounded toward zero.
Trunc(a, b) == IF a >= 0 THEN a \div b ELSE 0 - ((0 - a) \div b)

\* The mutant of key: one fractional digit more is kept (prec = 8).
keyOneDigitMore(x) ==
  (Trunc(x, Pow10(FloatDigits))) * Pow10(prec + 1)
    + Trunc(x - Trunc(x, Pow10(FloatDigits)) * Pow10(FloatDigits), Pow10(FloatDigits - prec - 1))

\* F32Wrapper::key.  whole = inner as i64; frac = ((inner - whole) * 10^prec) as i64;
\* the result whole * 10^prec + frac.  The final `as u64` is one-to-one on i64 and is
\* left out: keys are only compared for equality.
key(x) ==
  (Trunc(x, Pow10(FloatDigits))) * Pow10(prec)
    + Trunc(x - Trunc(x, Pow10(FloatDigits)) * Pow10(FloatDigits), Pow10(FloatDigits - prec))

\* The mutant of KeyEq: the floats themselves compared.
RawEq(a, b) == a = b

\* impl PartialEq for F32Wrapper
KeyEq(a, b) == key(a) = key(b)

\* #[derive(PartialEq, Eq, Hash)] on ParsedVertex: field by field, float by float.
ParsedVertexEq(a, b) ==
  /\ \A i \in 1..3 : KeyEq(a.pos[i], b.pos[i])
  /\ \A i \in 1..2 : KeyEq(a.tex[i], b.tex[i])
  /\ \A i \in 1..3 : KeyEq(a.norm[i], b.norm[i])

\* The mutant of IndexOf: an index past the end wraps around the array.
IndexOfWrapping(len, k) ==
  IF len = 0 THEN k ELSE (IF k < 0 THEN len + k ELSE k) % len

\* `if k < 0 { len as i32 + k } else { k } as usize`.  A negative result stands for
\* the usize above every length that a negative i32 casts to.
IndexOf(len, k) == IF k < 0 THEN len + k ELSE k

\* The bounds check of array[offset].
InBounds(len, off) == off >= 0 /\ off < len

Located(rsn, p, t, n) == [panic |-> rsn, pos |-> p, tex |-> t, norm |-> n]

\* The array lookups of one corner, after both unwraps succeeded.
Lookups(raw, p, t, n) ==
  IF /\ InBounds(Len(raw.vertex_pos), p)
     /\ InBounds(Len(raw.vertex_tex), t)
     /\ InBounds(Len(raw.vertex_norm), n)
  THEN Located("", p, t, n)
  ELSE Located("index out of bounds", p, t, n)

\* The head of both loops: tex_ind and norm_ind are unwrapped, then the three arrays
\* are indexed.
Locate(raw, v) ==
  IF v.texcoord_rindex = None \/ v.normal_rindex = None
  THEN Located("unwrap on None", 0, 0, 0)
  ELSE Lookups(raw, IndexOf(Len(raw.vertex_pos), v.coord_rindex),
                    IndexOf(Len(raw.vertex_tex), v.texcoord_rindex[1]),
                    IndexOf(Len(raw.vertex_norm), v.normal_rindex[1]))

ParsedVertex(raw, at) ==
  [pos |-> raw.vertex_pos[at.pos + 1], tex |-> raw.vertex_tex[at.tex + 1],
   norm |-> raw.vertex_norm[at.norm + 1]]

\* A pass that panicked returns nothing.
Panicked(rsn, resolved) ==
  [status |-> "panic", reason |-> rsn, vertex_pos |-> <<>>, vertex_tex |-> <<>>,
   vertex_norm |-> <<>>, indecies |-> <<>>, resolved |-> resolved]

\* h.get(&pv): the ids of the entries whose key equals pv's.
Get(h, pv) == {h[i].id : i \in {j \in 1..Len(h) : ParsedVertexEq(h[j].pv, pv)}}

\* The body of to_opengl_data3d_dedup's loop once the corner is located.
DedupBody(st, at, pv) ==
  IF Get(st.h, pv) # {}
  THEN [st EXCEPT !.indecies = Append(@, CHOOSE id \in Get(st.h, pv) : TRUE),
                  !.resolved = Append(@, at)]
  ELSE [st EXCEPT !.h = Append(@, [pv |-> pv, id |-> st.curr_ind]),
                  !.indecies = Append(@, st.curr_ind),
                  !.curr_ind = @ + 1,
                  !.resolved = Append(@, at)]

\* One attribute array of the result: resized to h.len() with zeros, then slot i set
\* from the entry whose id is i.
Filled(h, field, zero) ==
  [j \in 1..Len(h) |->
     IF \E i \in 1..Len(h) : h[i].id = j - 1
     THEN h[CHOOSE i \in 1..Len(h) : h[i].id = j - 1].pv[field]
     ELSE zero]

\* The tail of to_opengl_data3d_dedup: the arrays are built from the map.
DedupResult(st) ==
  IF \E i \in 1..Len(st.h) : st.h[i].id >= Len(st.h)
  THEN Panicked("index out of bounds", st.resolved)
  ELSE [status |-> "ok", reason |-> "",
        vertex_pos |-> Filled(st.h, "pos", <<0, 0, 0>>),
        vertex_tex |-> Filled(st.h, "tex", <<0, 0>>),
        vertex_norm |-> Filled(st.h, "norm", <<0, 0, 0>>),
        indecies |-> st.indecies, resolved |-> st.resolved]

RECURSIVE DedupFrom(_, _, _)
DedupAt(raw, i, st, at) ==
  IF at.panic # "" THEN Panicked(at.panic, st.resolved)
  ELSE DedupFrom(raw, i + 1, DedupBody(st, at, ParsedVertex(raw, at)))

DedupFrom(raw, i, st) ==
  IF i > Len(raw.vert_ind) THEN DedupResult(st)
  ELSE DedupAt(raw, i, st, Locate(raw, raw.vert_ind[i]))

to_opengl_data3d_dedup(raw) ==
  DedupFrom(raw, 1, [h |-> <<>>, indecies |-> <<>>, curr_ind |-> 0, resolved |-> <<>>])

\* The body of to_opengl_data3d_simple's loop once the corner is located.
SimpleBody(out, at, pv) ==
  [out EXCEPT !.vertex_pos = Append(@, pv.pos),
              !.vertex_tex = Append(@, pv.tex),
              !.vertex_norm = Append(@, pv.norm),
              !.indecies = Append(@, Len(out.indecies)),
              !.resolved = Append(@, at)]

RECURSIVE SimpleFrom(_, _, _)
SimpleAt(raw, i, out, at) ==
  IF at.panic # "" THEN Panicked(at.panic, out.resolved)
  ELSE SimpleFrom(raw, i + 1, SimpleBody(out, at, ParsedVertex(raw, at)))

SimpleFrom(raw, i, out) ==
  IF i > Len(raw.vert_ind) THEN out
  ELSE SimpleAt(raw, i, out, Locate(raw, raw.vert_ind[i]))

to_opengl_data3d_simple(raw) ==
  SimpleFrom(raw, 1, [status |-> "ok", reason |-> "", vertex_pos |-> <<>>, vertex_tex |-> <<>>,
                      vertex_norm |-> <<>>, indecies |-> <<>>, resolved |-> <<>>])

\* to_raw_data3d has returned; to_opengl_data3d_dedup runs on its result.
Dedup ==
  /\ pc = "aggregate"
  /\ pc' = "dedup"
  /\ o' = to_opengl_data3d_dedup(r)
  /\ UNCHANGED <<r, printed, faces, expected, lineVars, fileVars>>

\* to_raw_data3d has returned; to_opengl_data3d_simple runs on its result.
Simple ==
  /\ pc = "aggregate"
  /\ pc' = "simple"
  /\ o' = to_opengl_data3d_simple(r)
  /\ UNCHANGED <<r, printed, faces, expected, lineVars, fileVars>>

Next ==
  \/ \E rec \in LineRecords(r) : Consume(rec)
  \/ Dedup
  \/ Simple

Spec == Init /\ [][Next]_vars

(***************************************************************************)
(* Properties of the conversion passes.                                    *)
(***************************************************************************)

Done == pc \in {"dedup", "simple"}

NCorners == Len(r.vert_ind)

FullCorner(v) == v.texcoord_rindex # None /\ v.normal_rindex # None

InRange(len, k) == (k >= 1 /\ k <= len) \/ (k <= 0 - 1 /\ k >= 0 - len)

Beyond(len, k) == k > len \/ k < 0 - len

AllInRange(v) ==
  /\ FullCorner(v)
  /\ InRange(Len(r.vertex_pos), v.coord_rindex)
  /\ InRange(Len(r.vertex_tex), v.texcoord_rindex[1])
  /\ InRange(Len(r.vertex_norm), v.normal_rindex[1])

\* C1: in both conversion passes a positive index k selects the element at offset
\* k - 1 of its array, so every corner whose three indices lie in 1..len or
\* -len..-1 is resolved, and a positive k is resolved to offset k - 1.
C1_PositiveIndexOneBased ==
  (Done /\ \A i \in 1..NCorners : AllInRange(r.vert_ind[i]))
    => /\ o.status = "ok"
       /\ \A i \in 1..NCorners :
            /\ r.vert_ind[i].coord_rindex > 0
                 => o.resolved[i].pos = r.vert_ind[i].coord_rindex - 1
            /\ r.vert_ind[i].texcoord_rindex[1] > 0
                 => o.resolved[i].tex = r.vert_ind[i].texcoord_rindex[1] - 1
            /\ r.vert_ind[i].normal_rindex[1] > 0
                 => o.resolved[i].norm = r.vert_ind[i].normal_rindex[1] - 1

\* The offset the conversion passes compute for the position index of corner i when
\* they are run on raw.
PosOffset(raw, i) == IndexOf(Len(raw.vertex_pos), raw.vert_ind[i].coord_rindex)

\* C2: a negative index is resolved against the length its array has at the face
\* line: the offset of a corner with a negative position index is the array length
\* at its face line plus the index, and once that offset names an element no later
\* line changes it.
C2_NegativeIndexAtFaceLine ==
  [][(pc = "aggregate" /\ pc' = "aggregate")
       => \A i \in 1..Len(r'.vert_ind) :
            r'.vert_ind[i].coord_rindex < 0
              => IF i > NCorners
                 THEN PosOffset(r', i) = Len(r.vertex_pos) + r'.vert_ind[i].coord_rindex
                 ELSE InBounds(Len(r.vertex_pos), PosOffset(r, i))
                        => PosOffset(r', i) = PosOffset(r, i)]_vars

\* The floats of corner i, as the pass located them.
CornerFloats(i) ==
  r.vertex_pos[o.resolved[i].pos + 1] \o r.vertex_tex[o.resolved[i].tex + 1]
    \o r.vertex_norm[o.resolved[i].norm + 1]

\* The eight quantized coordinates of corner i.
CornerKey(i) == [c \in 1..8 |-> key(CornerFloats(i)[c])]

\* The corner at which the key of corner i occurs first.
FirstSeen(i) == CHOOSE f \in 1..i :
  CornerKey(f) = CornerKey(i) /\ \A g \in 1..(f - 1) : CornerKey(g) # CornerKey(i)

\* C5: when the deduplicating pass completes, its three attribute arrays have one
\* length N, the number of distinct quantized keys among the corners; the index
\* array has one entry per corner, each below N; two corners have the same id
\* exactly when their keys are equal; ids are given from 0 in first-seen order.
C5_DedupOutput ==
  (pc = "dedup" /\ o.status = "ok")
    => /\ Len(o.vertex_pos) = Len(o.vertex_tex)
       /\ Len(o.vertex_tex) = Len(o.vertex_norm)
       /\ Len(o.vertex_pos) = Cardinality({CornerKey(i) : i \in 1..NCorners})
       /\ Len(o.indecies) = NCorners
       /\ \A i \in 1..NCorners : o.indecies[i] \in 0..(Len(o.vertex_pos) - 1)
       /\ \A i, j \in 1..NCorners :
            (o.indecies[i] = o.indecies[j]) <=> (CornerKey(i) = CornerKey(j))
       /\ \A i \in 1..NCorners :
            o.indecies[i] = Cardinality({CornerKey(j) : j \in 1..(FirstSeen(i) - 1)})

\* A completed deduplicating pass that merged corners and kept others apart.
C5_Witness ==
  /\ pc = "dedup" /\ o.status = "ok"
  /\ Len(o.vertex_pos) >= 2
  /\ Len(o.vertex_pos) < NCorners

CornerBeyond(v) ==
  \/ Beyond(Len(r.vertex_pos), v.coord_rindex)
  \/ v.texcoord_rindex # None /\ Beyond(Len(r.vertex_tex), v.texcoord_rindex[1])
  \/ v.normal_rindex # None /\ Beyond(Len(r.vertex_norm), v.normal_rindex[1])

PresentInBounds(v) ==
  /\ InBounds(Len(r.vertex_pos), IndexOf(Len(r.vertex_pos), v.coord_rindex))
  /\ v.texcoord_rindex # None
       => InBounds(Len(r.vertex_tex), IndexOf(Len(r.vertex_tex), v.texcoord_rindex[1]))
  /\ v.normal_rindex # None
       => InBounds(Len(r.vertex_norm), IndexOf(Len(r.vertex_norm), v.normal_rindex[1]))

\* C7: the deduplicating pass fails when a corner lacks its texcoord or its normal
\* index; the simple pass needs neither: it completes whenever the indices that are
\* present name elements, with one vertex per corner and the indices 0, 1, 2, ...
C7_SimpleNeedsOnlyPositions ==
  /\ (pc = "dedup" /\ \E i \in 1..NCorners : ~FullCorner(r.vert_ind[i]))
       => o.status = "panic"
  /\ (pc = "simple" /\ \A i \in 1..NCorners : PresentInBounds(r.vert_ind[i]))
       => /\ o.status = "ok"
          /\ Len(o.vertex_pos) = NCorners
          /\ o.indecies = [i \in 1..NCorners |-> i - 1]

\* Two floats agree in their integer part and in their first prec fractional
\* digits, both read off with truncation toward zero.
SameDigits(a, b) ==
  /\ Trunc(a, Pow10(FloatDigits)) = Trunc(b, Pow10(FloatDigits))
  /\ Trunc(a - Trunc(a, Pow10(FloatDigits)) * Pow10(FloatDigits), Pow10(FloatDigits - prec))
       = Trunc(b - Trunc(b, Pow10(FloatDigits)) * Pow10(FloatDigits), Pow10(FloatDigits - prec))

Distance(a, b) == IF a >= b THEN a - b ELSE b - a

\* 10^-7, in the unit of the floats.
Tolerance == Pow10(FloatDigits - prec)

====
